---- MODULE Spec2Model ----
(***************************************************************************)
(* A model of the nest-services relay: the VoiceGateway (front-end         *)
(* Socket.IO gateway), the PythonSocket (the single upstream link), and    *)
(* the five Redis-backed caches.                                           *)
(*                                                                         *)
(* The specifications share the state:                                     *)
(*   Spec         the gateway: connects, disconnects, text_input, upstream *)
(*                replies, every handler split at its awaits, the Redis    *)
(*                replies resuming the handlers in the order of the        *)
(*                commands;                                                *)
(*   SpecCache    the cache classes called one call at a time, with time   *)
(*                passing and the Redis connection going down and up;      *)
(*   SpecRelay    repeat_last against the audio-relay cache, with time;    *)
(*   SpecForward  one client's requests that are forwarded to the          *)
(*                upstream, with the link and Redis going down and up;     *)
(*   SpecPolly    one client's text_input with cached replies and their    *)
(*                synthesis;                                               *)
(*   SpecClose    three clients that connect and close;                    *)
(*   SpecExchange answers the upstream sends as several messages;          *)
(*   SpecInvalid  payloads with and without their field;                   *)
(*   SpecRepeat   synthesized audio and repeat_last.                       *)
(***************************************************************************)
EXTENDS Integers, Sequences, FiniteSets, TLC

(***************************************************************************)
(* Bounds of the model.                                                    *)
(***************************************************************************)
\* client events after the connects (text_input, disconnect) in one behaviour of Spec
MaxEvents == 2
\* clock advances in one behaviour of SpecCache / SpecRelay
MaxTicks == 2
\* cache calls (and repeat_last requests) in one behaviour of SpecCache / SpecRelay
MaxCalls == 4

(***************************************************************************)
(* Program constants: the TTL (seconds) each cache passes to SET ... EX.   *)
(***************************************************************************)
SessionTtl == 1800
DedupTtl == 2
ExactTtl == 60
SttTtl == 300
TtsRelayTtl == 300

(***************************************************************************)
(* Small input domains.                                                    *)
(***************************************************************************)
\* socket ids; a socket id is never reused, so each connects at most once
Clients == {"c1", "c2"}
\* with a third socket, for the specification of the fallback target (SpecClose)
AllClients == Clients \cup {"c3"}
Texts == {"hi", "bye"}
Chunks == {"pcm1", "pcm2"}
Transcripts == {"", "hello"}
AudioHashes == {"h1"}
ResponseIds == {"r1"}
Audios == {"mp3a", "mp3b"}

\* JS null / undefined is the empty tuple, a present value v is <<v>>
None == << >>
Some(v) == <<v>>

\* the greeting text of the gateway and the reply the upstream computes for a text
GREETING == "greeting"
Answer(text) == "re:" \o text

\* session payloads the gateway writes: { connectedAt } and { connectedAt?, lastQuery }
Payload(connectedAt, lastQuery) == [connectedAt |-> connectedAt, lastQuery |-> lastQuery]
EmptyObject == Payload(None, None)
SessionPayloads == { Payload(Some(0), None), Payload(Some(0), Some("hi")), Payload(None, Some("bye")) }

VARIABLES
  sockets,               \* server.sockets.sockets: connected socket ids, in insertion order
  activeFrontendClient,  \* VoiceGateway.activeFrontendClient (None is null)
  pyConnected,           \* PythonSocket.socket.connected
  pyPending,             \* requests the upstream has received and not yet answered
  handlers,              \* async handlers suspended at an await: id -> frame
  redisQueue,            \* the handlers awaiting a Redis reply, oldest command first
  delivered,             \* per socket id, the events the client has received, in order
  issued,                \* number of text_input and disconnect events handled so far
  phase,                 \* per socket id: "new", "open" or "closed"
  redis,                 \* the Redis keyspace: key -> [val, exp]
  redisStatus,           \* the ioredis client's status: "wait", "connecting" or "ready"
  memory,                \* SessionCache.memory
  now,                   \* the clock, in seconds
  ticks,                 \* number of clock advances so far
  calls,                 \* number of cache calls so far (SpecCache)
  underTest,             \* the cache class the calls of SpecCache go to
  lastSetAt,             \* per Redis key, when a call of a cache's set last completed normally
  last                   \* the last event: which operation ran, on what, with what outcome

vars == << sockets, activeFrontendClient, pyConnected, pyPending, handlers, redisQueue, delivered,
           issued, phase, redis, redisStatus, memory, now, ticks, calls, underTest, lastSetAt, last >>

gatewayVars == << sockets, activeFrontendClient, pyConnected, pyPending, handlers, redisQueue,
                  delivered, issued, phase >>
storeVars == << redis, redisStatus, memory, lastSetAt >>
clockVars == << now, ticks >>

(***************************************************************************)
(* Redis, as the caches use it: GET, GETBUFFER and SET key value EX ttl    *)
(* on one connection.  With lazyConnect the client waits for the first     *)
(* command to open the connection; with enableOfflineQueue false a command *)
(* issued while the connection is not ready is rejected.                   *)
(***************************************************************************)
RedisUp == redisStatus = "ready"
\* the status after a command was issued: the first command starts the connection
Touch(status) == IF status = "wait" THEN "connecting" ELSE status

Live(store, k, t) == k \in DOMAIN store /\ t < store[k].exp

\* the reply of GET: ok is FALSE when the command was rejected
RedisGet(store, up, k, t) ==
  IF ~up THEN [ok |-> FALSE, val |-> None]
  ELSE [ok |-> TRUE, val |-> IF Live(store, k, t) THEN Some(store[k].val) ELSE None]

RedisSetEx(store, up, k, v, ttl, t) ==
  IF ~up THEN store
  ELSE [x \in DOMAIN store \cup {k} |-> IF x = k THEN [val |-> v, exp |-> t + ttl] ELSE store[x]]

\* the keys Redis has dropped by time t
Purge(store, t) == [x \in {k \in DOMAIN store : t < store[k].exp} |-> store[x]]

\* JSON.stringify / JSON.parse of the values the caches are given
JsonStringify(v) == <<"json", v>>
JsonParse(data) == data[2]
\* `data ? ... : ...` on the reply of GET for a key that holds JSON text: a JSON
\* text is never the empty string, so the reply is truthy exactly when it is not null
Truthy(reply) == reply # None

(***************************************************************************)
(* Key schemes.                                                            *)
(***************************************************************************)
SessionKey(sessionId) == "session:" \o sessionId
Hash(chunk) == IF chunk = "pcm1" THEN "9f3a" ELSE "07c1"
DedupKey(sessionId, chunk) == "audio_chunk:" \o sessionId \o ":" \o Hash(chunk)
ExactKey(lang, text) == "exact_response:" \o lang \o ":" \o text
SttKey(audioHash) == "stt_raw:" \o audioHash
TtsRelayKey(responseId) == "tts_relay:" \o responseId

(***************************************************************************)
(* The cache classes.  A method that awaits one Redis command is given by  *)
(* the command it issues and by what it returns once the reply is in.      *)
(***************************************************************************)
MemoryGet(mem, sessionId) == IF sessionId \in DOMAIN mem THEN Some(mem[sessionId]) ELSE None
MemorySet(mem, sessionId, payload) ==
  [x \in DOMAIN mem \cup {sessionId} |-> IF x = sessionId THEN payload ELSE mem[x]]

\* SessionCache.get after `await this.redis.get(...)`: the parsed data, or the
\* in-process map both when the key is absent and when the command was rejected
SessionGetReturn(reply, mem, sessionId) ==
  IF reply.ok /\ Truthy(reply.val) THEN Some(JsonParse(reply.val[1]))
  ELSE MemoryGet(mem, sessionId)

\* SessionCache.set up to its await: the in-process map, then SET ... EX 1800
SessionSetStore(store, up, sessionId, payload, t) ==
  RedisSetEx(store, up, SessionKey(sessionId), JsonStringify(payload), SessionTtl, t)

\* ExactResponseCache.get after its await (the caller has seen reply.ok)
ExactGetReturn(reply) == IF Truthy(reply.val) THEN Some(JsonParse(reply.val[1])) ELSE None
\* the SET under a key with its two parts in the wrong order
ExactSetStoreSwapped(store, up, lang, text, response, t) ==
  RedisSetEx(store, up, "exact_response:" \o text \o ":" \o lang, JsonStringify(response),
             ExactTtl, t)
ExactSetStore(store, up, lang, text, response, t) ==
  RedisSetEx(store, up, ExactKey(lang, text), JsonStringify(response), ExactTtl, t)

\* SttRawCache.get returns the reply as it is
SttGetReturn(reply) == reply.val
SttSetStore(store, up, audioHash, transcript, t) ==
  RedisSetEx(store, up, SttKey(audioHash), transcript, SttTtl, t)

\* TtsRelayCache.get: `data ?? null`
TtsGetReturn(reply) == reply.val
\* the SET with the session TTL instead of the relay's own
TtsSetStoreLongTtl(store, up, responseId, audio, t) ==
  RedisSetEx(store, up, TtsRelayKey(responseId), audio, SessionTtl, t)
TtsSetStore(store, up, responseId, audio, t) ==
  RedisSetEx(store, up, TtsRelayKey(responseId), audio, TtsRelayTtl, t)

\* AudioDedupCache.isDuplicate: `if (exists) return true`, else SET ... '1' EX 2
DedupExists(reply) == reply.val # None
\* the marker written with the session TTL instead of its own
DedupMarkStoreLongTtl(store, up, sessionId, chunk, t) ==
  RedisSetEx(store, up, DedupKey(sessionId, chunk), "1", SessionTtl, t)
DedupMarkStore(store, up, sessionId, chunk, t) ==
  RedisSetEx(store, up, DedupKey(sessionId, chunk), "1", DedupTtl, t)

(***************************************************************************)
(* Events: what `last` records of an operation.                            *)
(***************************************************************************)
Event(op, key, arg, status, ret, since) ==
  [op |-> op, key |-> key, arg |-> arg, status |-> status, ret |-> ret, since |-> since,
   \* the value a set of the same key stored, when that set is the event just before
   justSet |-> IF last.key = key /\ last.arg # None /\ last.status = "ok"
               THEN last.arg ELSE None]
NoEvent(op) == [op |-> op, key |-> "", arg |-> None, status |-> "ok", ret |-> None,
                since |-> -1, justSet |-> None]

\* seconds since a set of key k last completed normally, -1 if none has
SinceSet(k) == IF k \in DOMAIN lastSetAt THEN now - lastSetAt[k] ELSE -1
Stamp(k) == [x \in DOMAIN lastSetAt \cup {k} |-> IF x = k THEN now ELSE lastSetAt[x]]

Record(e) == last' = e

(***************************************************************************)
(* The cache classes, one call at a time (SpecCache).                      *)
(***************************************************************************)
Roles == {"session", "dedup", "exact", "stt", "tts"}
Ttl(role) == CASE role = "session" -> SessionTtl
               [] role = "dedup" -> DedupTtl
               [] role = "exact" -> ExactTtl
               [] role = "stt" -> SttTtl
               [] OTHER -> TtsRelayTtl

CacheCall(e) ==
  /\ calls < MaxCalls
  /\ calls' = calls + 1
  /\ redisStatus' = Touch(redisStatus)
  /\ Record(e)
  /\ UNCHANGED << gatewayVars, clockVars, underTest >>

\* SessionCache.set(sessionId, payload): never throws
SessionCacheSet(sessionId, payload) ==
  LET k == SessionKey(sessionId) IN
  /\ memory' = MemorySet(memory, sessionId, payload)
  /\ redis' = SessionSetStore(redis, RedisUp, sessionId, payload, now)
  /\ lastSetAt' = Stamp(k)
  /\ CacheCall(Event("session.set", k, Some(payload), "ok", None, SinceSet(k)))

\* SessionCache.get(sessionId): never throws
SessionCacheGet(sessionId) ==
  LET k == SessionKey(sessionId)
      reply == RedisGet(redis, RedisUp, k, now)
  IN /\ CacheCall(Event("session.get", k, None, "ok",
                         SessionGetReturn(reply, memory, sessionId), SinceSet(k)))
     /\ UNCHANGED << redis, memory, lastSetAt >>

\* a set of a class without a try/catch: the rejection of SET reaches the caller
PlainSet(op, k, arg, store) ==
  /\ redis' = store
  /\ lastSetAt' = IF RedisUp THEN Stamp(k) ELSE lastSetAt
  /\ CacheCall(Event(op, k, Some(arg), IF RedisUp THEN "ok" ELSE "threw", None, SinceSet(k)))
  /\ UNCHANGED memory

\* a get of a class without a try/catch: the rejection of GET reaches the caller
PlainGet(op, k, reply, ret) ==
  /\ CacheCall(Event(op, k, None, IF reply.ok THEN "ok" ELSE "threw",
                      IF reply.ok THEN ret ELSE None, SinceSet(k)))
  /\ UNCHANGED << redis, memory, lastSetAt >>

ExactResponseCacheSet(lang, text, response) ==
  PlainSet("exact.set", ExactKey(lang, text), response,
           ExactSetStore(redis, RedisUp, lang, text, response, now))

ExactResponseCacheGet(lang, text) ==
  LET reply == RedisGet(redis, RedisUp, ExactKey(lang, text), now)
  IN PlainGet("exact.get", ExactKey(lang, text), reply, ExactGetReturn(reply))

SttRawCacheSet(audioHash, transcript) ==
  PlainSet("stt.set", SttKey(audioHash), transcript,
           SttSetStore(redis, RedisUp, audioHash, transcript, now))

SttRawCacheGet(audioHash) ==
  LET reply == RedisGet(redis, RedisUp, SttKey(audioHash), now)
  IN PlainGet("stt.get", SttKey(audioHash), reply, SttGetReturn(reply))

TtsRelayCacheSet(responseId, audio) ==
  PlainSet("tts.set", TtsRelayKey(responseId), audio,
           TtsSetStore(redis, RedisUp, responseId, audio, now))

TtsRelayCacheGet(responseId) ==
  LET reply == RedisGet(redis, RedisUp, TtsRelayKey(responseId), now)
  IN PlainGet("tts.get", TtsRelayKey(responseId), reply, TtsGetReturn(reply))

\* AudioDedupCache.isDuplicate(sessionId, chunk), both awaits in one step
IsDuplicate(sessionId, chunk) ==
  LET k == DedupKey(sessionId, chunk)
      reply == RedisGet(redis, RedisUp, k, now)
      marks == reply.ok /\ ~DedupExists(reply)
  IN /\ redis' = IF marks THEN DedupMarkStore(redis, RedisUp, sessionId, chunk, now) ELSE redis
     /\ lastSetAt' = IF marks THEN Stamp(k) ELSE lastSetAt
     /\ CacheCall(Event("dedup.isDuplicate", k, Some(chunk),
                         IF reply.ok THEN "ok" ELSE "threw",
                         IF reply.ok THEN Some(DedupExists(reply)) ELSE None, SinceSet(k)))
     /\ UNCHANGED memory

(***************************************************************************)
(* The environment of the caches: the clock and the Redis connection.      *)
(***************************************************************************)
\* the clock advances by a second, or to one second short of a TTL
TickSteps(role) == {1, Ttl(role) - 1}

Tick(d) ==
  /\ ticks < MaxTicks
  /\ ticks' = ticks + 1
  /\ now' = now + d
  /\ redis' = Purge(redis, now + d)
  /\ Record(NoEvent("env"))
  /\ UNCHANGED << gatewayVars, redisStatus, memory, lastSetAt, calls, underTest >>

\* the connection becomes ready
RedisReady ==
  /\ redisStatus = "connecting"
  /\ redisStatus' = "ready"
  /\ Record(IF underTest = "none" THEN last ELSE NoEvent("env"))
  /\ UNCHANGED << gatewayVars, clockVars, redis, memory, lastSetAt, calls, underTest >>

\* the connection is lost; retryStrategy reconnects in the background
RedisDown ==
  /\ redisStatus = "ready"
  /\ redisStatus' = "connecting"
  /\ Record(NoEvent("env"))
  /\ UNCHANGED << gatewayVars, clockVars, redis, memory, lastSetAt, calls, underTest >>

Init ==
  /\ sockets = << >>
  /\ activeFrontendClient = None
  /\ pyConnected = FALSE
  /\ pyPending = {}
  /\ handlers = << >>
  /\ redisQueue = << >>
  /\ delivered = [c \in AllClients |-> << >>]
  /\ issued = 0
  /\ phase = [c \in AllClients |-> "new"]
  /\ redis = << >>
  /\ redisStatus = "wait"
  /\ memory = << >>
  /\ now = 0
  /\ ticks = 0
  /\ calls = 0
  /\ lastSetAt = << >>
  /\ last = NoEvent("init")

\* SpecCache: the calls of one behaviour go to one cache class
InitCache ==
  /\ Init
  /\ underTest \in Roles

NextCache ==
  \/ \E c \in Clients, p \in SessionPayloads :
       underTest = "session" /\ SessionCacheSet(c, p)
  \/ \E c \in Clients : underTest = "session" /\ SessionCacheGet(c)
  \/ \E t \in Texts, r \in Texts :
       underTest = "exact" /\ ExactResponseCacheSet("en", t, Answer(r))
  \/ \E t \in Texts : underTest = "exact" /\ ExactResponseCacheGet("en", t)
  \/ \E h \in AudioHashes, s \in Transcripts :
       underTest = "stt" /\ SttRawCacheSet(h, s)
  \/ \E h \in AudioHashes : underTest = "stt" /\ SttRawCacheGet(h)
  \/ \E r \in ResponseIds, a \in Audios :
       underTest = "tts" /\ TtsRelayCacheSet(r, a)
  \/ \E r \in ResponseIds : underTest = "tts" /\ TtsRelayCacheGet(r)
  \/ \E c \in Clients, b \in Chunks : underTest = "dedup" /\ IsDuplicate(c, b)
  \/ \E d \in TickSteps(underTest) : Tick(d)
  \/ RedisReady
  \/ RedisDown

SpecCache == InitCache /\ [][NextCache]_vars

(***************************************************************************)
(* The gateway.  An async handler runs to its first await when its event   *)
(* arrives and is resumed, one await at a time, by later steps; a Redis    *)
(* command takes effect when it is issued and its reply is kept in the     *)
(* suspended frame.                                                        *)
(***************************************************************************)
Connected(c) == \E i \in 1..Len(sockets) : sockets[i] = c
RemoveSocket(socks, c) == SelectSeq(socks, LAMBDA x : x # c)

\* client.emit(...): a socket that has disconnected receives nothing
Emit(d, c, msgs) == IF Connected(c) THEN [d EXCEPT ![c] = @ \o msgs] ELSE d

\* an event as the client receives it; owner is the client whose connect or request
\* it answers, src says who produced it, ownerClosed whether owner had disconnected,
\* age how long the relayed audio had been stored (-1 when it is not relayed audio),
\* exchange the request an upstream message answers and index its position among the
\* messages of that answer ("" and 0 when the upstream sent the answer as one message)
Msg(ev, type, text, owner, src) ==
  [ev |-> ev, type |-> type, text |-> text, owner |-> owner, src |-> src,
   ownerClosed |-> phase[owner] = "closed", overlap |-> FALSE, age |-> -1, index |-> 0,
   exchange |-> ""]

\* since: for a read of the audio-relay cache, the time since the key was written;
\* seq: the position of the request among the client events (0 for other handlers);
\* late: what handlePythonMessage has yet to emit when it resumes from its await
Frame(kind, c, pc, text, reply) ==
  [kind |-> kind, client |-> c, pc |-> pc, text |-> text, reply |-> reply, since |-> -1,
   seq |-> 0, late |-> << >>]
Suspend(h, id, frame) == [x \in DOMAIN h \cup {id} |-> IF x = id THEN frame ELSE h[x]]
Finish(h, id) == [x \in DOMAIN h \ {id} |-> h[x]]
At(id, kind, pc) == id \in DOMAIN handlers /\ handlers[id].kind = kind /\ handlers[id].pc = pc
\* Redis answers the commands of its one connection in order, so the handler that
\* resumes from a Redis await is the one whose command is the oldest
RedisReplied(id) == redisQueue # << >> /\ Head(redisQueue) = id

GatewayStep(e) ==
  /\ Record(e)
  /\ UNCHANGED << clockVars, calls, underTest >>
\* a step that completes neither a cache call nor a disconnect leaves the last event
Step == last

\* getActiveClient(): the socket of activeFrontendClient, null when there is none
GetActiveClient ==
  IF activeFrontendClient = None THEN None
  ELSE IF Connected(activeFrontendClient[1]) THEN activeFrontendClient ELSE None

\* handleDisconnect: `[...keys()].find((id) => id !== client.id)`, the first socket
\* in insertion order that is not the closing one
\* a handler whose else branch clears the target
DisconnectTargetElseNull(socks, active, c) ==
  IF active = Some(c)
  THEN LET rest == RemoveSocket(socks, c)
       IN IF rest = << >> THEN None ELSE Some(Head(rest))
  ELSE None
DisconnectTarget(socks, active, c) ==
  IF active = Some(c)
  THEN LET rest == RemoveSocket(socks, c)
       IN IF rest = << >> THEN None ELSE Some(Head(rest))
  ELSE active

(***************************************************************************)
(* The upstream link (PythonSocket).                                       *)
(***************************************************************************)
\* an emit that hands the message to socket.io whatever the state of the link, so
\* that it is buffered and sent once the link is up again
PythonEmitQueued(pending, connected, req) == pending \cup {req}
\* PythonSocket.emit: nothing is sent while the link is not connected
PythonEmit(pending, connected, req) == IF connected THEN pending \cup {req} ELSE pending

Request(id, event, text, owner) ==
  [id |-> id, event |-> event, text |-> text, owner |-> owner,
   \* whether a text_query of another client was waiting for its reply meanwhile
   overlap |-> FALSE,
   \* the position of the client's request among the client events (0: new_session)
   seq |-> 0,
   \* whether the link was connected and whether the owner had disconnected, when
   \* the gateway called emit
   up |-> pyConnected,
   ownerClosed |-> phase[owner] = "closed",
   \* the later requests of the same client that had reached the upstream before
   overtakenBy |-> {},
   \* how many messages of its reply the upstream has emitted
   replied |-> 0]

\* a client's request as sendTextQuery and the other send methods forward it
Forward(pending, id, event, text, owner, seq) ==
  [Request(id, event, text, owner) EXCEPT
     !.seq = seq,
     !.overtakenBy = { r.seq : r \in { x \in pending : x.owner = owner /\ x.seq > seq } }]

PythonConnect ==
  /\ ~pyConnected
  /\ pyConnected' = TRUE
  /\ GatewayStep(Step)
  /\ UNCHANGED << sockets, activeFrontendClient, pyPending, handlers, redisQueue, delivered,
                  issued, phase, storeVars >>

(***************************************************************************)
(* handleConnection                                                        *)
(***************************************************************************)
HandleConnection(c) ==
  /\ phase[c] = "new"
  /\ phase' = [phase EXCEPT ![c] = "open"]
  /\ sockets' = Append(sockets, c)
  /\ activeFrontendClient' = Some(c)
  /\ memory' = MemorySet(memory, c, Payload(Some(now), None))
  /\ redis' = SessionSetStore(redis, RedisUp, c, Payload(Some(now), None), now)
  /\ redisStatus' = Touch(redisStatus)
  /\ handlers' = Suspend(handlers, c, Frame("connection", c, "sessionSet", "", None))
  /\ redisQueue' = Append(redisQueue, c)
  /\ GatewayStep(Step)
  /\ UNCHANGED << pyConnected, pyPending, delivered, issued, lastSetAt >>

\* after `await this.sessionCache.set(...)`: status, then new_session or the local greeting
ConnectionResume(c) ==
  /\ At(c, "connection", "sessionSet")
  /\ RedisReplied(c)
  /\ redisQueue' = Tail(redisQueue)
  /\ handlers' = Finish(handlers, c)
  /\ pyPending' = IF pyConnected
                   THEN PythonEmit(pyPending, pyConnected, Request(c, "new_session", "", c))
                   ELSE pyPending
  /\ delivered' = Emit(delivered, c,
                        <<Msg("status", "success", "", c, "local")>> \o
                        (IF pyConnected THEN << >>
                         ELSE <<Msg("text_response", "initial_greeting", GREETING, c, "local")>>))
  /\ GatewayStep(Step)
  /\ UNCHANGED << sockets, activeFrontendClient, pyConnected, issued, phase, storeVars >>

(***************************************************************************)
(* handleDisconnect.  socket.io has removed the socket from the server's   *)
(* map when the handler runs; for a socket that is already closed this is  *)
(* the handler run a second time.                                          *)
(***************************************************************************)
HandleDisconnect(c) ==
  /\ phase[c] # "new"
  /\ issued < MaxEvents
  /\ issued' = issued + 1
  /\ phase' = [phase EXCEPT ![c] = "closed"]
  /\ sockets' = RemoveSocket(sockets, c)
  /\ activeFrontendClient' = DisconnectTarget(RemoveSocket(sockets, c), activeFrontendClient, c)
  /\ GatewayStep([NoEvent("disconnect") EXCEPT !.key = c, !.arg = Some(phase[c])])
  /\ UNCHANGED << pyConnected, pyPending, handlers, redisQueue, delivered, storeVars >>

(***************************************************************************)
(* handleTextInput                                                         *)
(***************************************************************************)
RequestId(n) == "q" \o ToString(n)
\* the text each client sends
TextOf(c) == IF c = "c1" THEN "hi" ELSE "bye"
\* `if (x)` for a string or null
JsTruthy(opt) == opt # None /\ opt[1] # ""

\* up to `await this.sessionCache.get(client.id)`
\* `const { text } = payload` when the payload has no text field: the value is
\* undefined, which a template literal and a log line render as this string
Undefined == "undefined"
\* `sessionData.lastQuery = text` as the session record keeps it: JSON.stringify
\* leaves out a field whose value is undefined
LastQuery(text) == IF text = Undefined THEN None ELSE Some(text)

HandleTextInput(c, text) ==
  /\ phase[c] = "open"
  /\ issued < MaxEvents
  /\ issued' = issued + 1
  /\ activeFrontendClient' = Some(c)
  /\ handlers' = Suspend(handlers, RequestId(issued + 1),
                         [Frame("text_input", c, "sessionGet", text,
                                RedisGet(redis, RedisUp, SessionKey(c), now))
                            EXCEPT !.seq = issued + 1])
  /\ redisQueue' = Append(redisQueue, RequestId(issued + 1))
  /\ redisStatus' = Touch(redisStatus)
  /\ GatewayStep(Step)
  /\ UNCHANGED << sockets, pyConnected, pyPending, delivered, phase, redis, memory,
                  lastSetAt >>

\* `sessionData.lastQuery = text`, up to `await this.sessionCache.set(...)`
TextInputSessionGot(id) ==
  /\ At(id, "text_input", "sessionGet")
  /\ RedisReplied(id)
  /\ redisQueue' = Append(Tail(redisQueue), id)
  /\ LET f == handlers[id]
         got == SessionGetReturn(f.reply, memory, f.client)
         sessionData == IF got = None THEN EmptyObject ELSE got[1]
         stored == [sessionData EXCEPT !.lastQuery = LastQuery(f.text)]
     IN /\ memory' = MemorySet(memory, f.client, stored)
        /\ redis' = SessionSetStore(redis, RedisUp, f.client, stored, now)
        /\ handlers' = [handlers EXCEPT ![id].pc = "sessionSet"]
  /\ redisStatus' = Touch(redisStatus)
  /\ GatewayStep(Step)
  /\ UNCHANGED << sockets, activeFrontendClient, pyConnected, pyPending, delivered, issued,
                  phase, lastSetAt >>

\* up to `await this.exactResponseCache.get('en', text)`
TextInputSessionSet(id) ==
  /\ At(id, "text_input", "sessionSet")
  /\ RedisReplied(id)
  /\ redisQueue' = Append(Tail(redisQueue), id)
  /\ handlers' = [handlers EXCEPT
                    ![id].pc = "exactGet",
                    ![id].reply = RedisGet(redis, RedisUp, ExactKey("en", handlers[id].text), now)]
  /\ redisStatus' = Touch(redisStatus)
  /\ GatewayStep(Step)
  /\ UNCHANGED << sockets, activeFrontendClient, pyConnected, pyPending, delivered, issued,
                  phase, redis, memory, lastSetAt >>

\* the text_query a handler forwards, and the queries of other clients still waiting
Forwarded(pending, id, text, c) ==
  LET others == {r \in pending : r.event = "text_query" /\ r.owner # c}
  IN [sent |-> [Forward(pending, id, "text_query", text, c, handlers[id].seq)
                  EXCEPT !.overlap = others # {}],
      waiting |-> {IF r \in others THEN [r EXCEPT !.overlap = TRUE] ELSE r : r \in pending}]

\* from the cache's answer on: the cached reply, the error, or sendTextQuery
TextInputExactGot(id) ==
  /\ At(id, "text_input", "exactGet")
  /\ RedisReplied(id)
  /\ redisQueue' = Tail(redisQueue)
  /\ LET f == handlers[id]
         c == f.client
         cached == ExactGetReturn(f.reply)
         fwd == Forwarded(pyPending, id, f.text, c)
     IN IF ~f.reply.ok
        THEN \* the rejection leaves the handler; Nest's filter emits `exception`
             /\ delivered' = Emit(delivered, c, <<Msg("exception", "error", "", c, "local")>>)
             /\ handlers' = Finish(handlers, id)
             /\ UNCHANGED pyPending
        ELSE IF JsTruthy(cached)
        THEN /\ delivered' = Emit(delivered, c,
                                   << Msg("text_response", "cached", cached[1], c, "cache"),
                                      Msg("stream_complete", "cached", cached[1], c, "cache") >>)
             /\ handlers' = [handlers EXCEPT ![id].pc = "polly", ![id].text = cached[1]]
             /\ UNCHANGED pyPending
        ELSE IF ~pyConnected
        THEN /\ delivered' = Emit(delivered, c, <<Msg("error", "error", "", c, "local")>>)
             /\ handlers' = Finish(handlers, id)
             /\ UNCHANGED pyPending
        ELSE /\ pyPending' = PythonEmit(fwd.waiting, pyConnected, fwd.sent)
             /\ handlers' = Finish(handlers, id)
             /\ UNCHANGED delivered
  /\ GatewayStep(Step)
  /\ UNCHANGED << sockets, activeFrontendClient, pyConnected, issued, phase, storeVars >>

\* an emitPollyAudio without its try/catch: the rejection reaches Nest's filter
EmitPollyAudioUncaught(f, synthesized) ==
  IF synthesized THEN <<Msg("tts_audio", "mp3", f.text, f.client, "local")>>
  ELSE <<Msg("exception", "error", "", f.client, "local")>>
\* emitPollyAudio: what it emits when synthesizeSpeech returned a buffer, and when it
\* threw (engine error, or no audio stream in the response)
EmitPollyAudio(f, synthesized) ==
  IF synthesized THEN <<Msg("tts_audio", "mp3", f.text, f.client, "local")>> ELSE << >>

\* emitPollyAudio after `await this.pollyService.synthesizeSpeech(...)`
TextInputPollyDone(id, synthesized) ==
  /\ At(id, "text_input", "polly")
  /\ delivered' = Emit(delivered, handlers[id].client, EmitPollyAudio(handlers[id], synthesized))
  /\ handlers' = Finish(handlers, id)
  /\ GatewayStep(Step)
  /\ UNCHANGED << sockets, activeFrontendClient, pyConnected, pyPending, redisQueue, issued,
                  phase, storeVars >>

(***************************************************************************)
(* handlePythonMessage, case TEXT_RESPONSE.  The upstream answers a        *)
(* new_session with the greeting and a text_query with its response; the   *)
(* reply carries no client id.                                             *)
(***************************************************************************)
ResponseText(req) == IF req.event = "new_session" THEN GREETING ELSE Answer(req.text)
PythonType(req) == IF req.event = "new_session" THEN "initial_greeting" ELSE "response"
UpstreamMsg(ev, req) ==
  [Msg(ev, PythonType(req), ResponseText(req), req.owner, "upstream") EXCEPT
     !.overlap = req.overlap]

\* the reply arrives: dispatch, and handlePythonMessage up to its first await
PythonReplies(req) ==
  /\ pyConnected
  /\ req \in pyPending
  /\ pyPending' = pyPending \ {req}
  /\ LET client == GetActiveClient
     IN IF client = None
        THEN UNCHANGED << delivered, handlers, redisQueue, redisStatus >>
        ELSE /\ redisQueue' = Append(redisQueue, "m" \o req.id)
             /\ delivered' = Emit(delivered, client[1],
                                   << UpstreamMsg("text_response", req),
                                      UpstreamMsg("stream_complete", req) >>)
             /\ handlers' = Suspend(handlers, "m" \o req.id,
                                    Frame("python_message", client[1], "sessionGet",
                                          ResponseText(req),
                                          RedisGet(redis, RedisUp, SessionKey(client[1]), now)))
             /\ redisStatus' = Touch(redisStatus)
  /\ GatewayStep(Step)
  /\ UNCHANGED << sockets, activeFrontendClient, pyConnected, issued, phase, redis, memory,
                  lastSetAt >>

\* `if (sessionData?.lastQuery)`, then `await this.exactResponseCache.set(...)`, after
\* which the handler returns (a rejected SET is caught and logged by dispatch)
PythonMessageSessionGot(id) ==
  /\ At(id, "python_message", "sessionGet")
  /\ RedisReplied(id)
  /\ redisQueue' = Tail(redisQueue)
  /\ LET f == handlers[id]
         got == SessionGetReturn(f.reply, memory, f.client)
         lastQuery == IF got = None THEN None ELSE got[1].lastQuery
     IN IF JsTruthy(lastQuery)
        THEN /\ redis' = ExactSetStore(redis, RedisUp, "en", lastQuery[1], f.text, now)
             /\ redisStatus' = Touch(redisStatus)
             /\ handlers' = Finish(handlers, id)
        ELSE /\ handlers' = Finish(handlers, id)
             /\ UNCHANGED << redis, redisStatus >>
  /\ delivered' = Emit(delivered, handlers[id].client, handlers[id].late)
  /\ GatewayStep(Step)
  /\ UNCHANGED << sockets, activeFrontendClient, pyConnected, pyPending, issued,
                  phase, memory, lastSetAt >>

InitGateway ==
  /\ Init
  /\ underTest = "none"

Next ==
  \/ \E c \in Clients : HandleConnection(c)
  \/ \E c \in Clients : ConnectionResume(c)
  \/ \E c \in Clients : HandleDisconnect(c)
  \/ \E c \in Clients : HandleTextInput(c, TextOf(c))
  \/ \E id \in DOMAIN handlers : TextInputSessionGot(id)
  \/ \E id \in DOMAIN handlers : TextInputSessionSet(id)
  \/ \E id \in DOMAIN handlers : TextInputExactGot(id)
  \/ \E id \in DOMAIN handlers, ok \in BOOLEAN : TextInputPollyDone(id, ok)
  \/ \E req \in pyPending : PythonReplies(req)
  \/ \E id \in DOMAIN handlers : PythonMessageSessionGot(id)
  \/ PythonConnect
  \/ RedisReady

Spec == InitGateway /\ [][Next]_vars

(***************************************************************************)
(* repeatLast, with the audio-relay cache written by its owner (nothing in *)
(* the gateway calls TtsRelayCache.set) and with time passing.             *)
(***************************************************************************)
\* up to `await this.ttsRelayCache.get(payload.responseId)`
RepeatLast(c, responseId) ==
  /\ phase[c] = "open"
  /\ calls < MaxCalls
  /\ calls' = calls + 1
  /\ handlers' = Suspend(handlers, RequestId(calls + 1),
                         [Frame("repeat_last", c, "ttsGet", responseId,
                                RedisGet(redis, RedisUp, TtsRelayKey(responseId), now))
                            EXCEPT !.since = SinceSet(TtsRelayKey(responseId))])
  /\ redisQueue' = Append(redisQueue, RequestId(calls + 1))
  /\ redisStatus' = Touch(redisStatus)
  /\ Record(Step)
  /\ UNCHANGED << sockets, activeFrontendClient, pyConnected, pyPending, delivered, issued,
                  phase, redis, memory, lastSetAt, clockVars, underTest >>

\* `if (audio) client.emit('audio', ...)`; a rejected GET leaves the handler and
\* Nest's filter emits `exception`
RepeatLastResume(id) ==
  /\ At(id, "repeat_last", "ttsGet")
  /\ RedisReplied(id)
  /\ redisQueue' = Tail(redisQueue)
  /\ handlers' = Finish(handlers, id)
  /\ LET f == handlers[id]
         audio == TtsGetReturn(f.reply)
         emitted == IF ~f.reply.ok
                    THEN <<Msg("exception", "error", "", f.client, "local")>>
                    ELSE IF audio # None
                    THEN <<[Msg("audio", "base64", audio[1], f.client, "cache")
                              EXCEPT !.age = f.since]>>
                    ELSE << >>
     IN /\ delivered' = Emit(delivered, f.client, emitted)
        /\ Record([op |-> "repeat_last", key |-> TtsRelayKey(f.text), arg |-> None,
                   status |-> IF f.reply.ok THEN "ok" ELSE "threw",
                   ret |-> IF f.reply.ok /\ Connected(f.client) THEN audio ELSE None,
                   since |-> f.since, justSet |-> None])
  /\ UNCHANGED << sockets, activeFrontendClient, pyConnected, pyPending, issued, phase,
                  storeVars, clockVars, calls, underTest >>

InitRelay ==
  /\ Init
  /\ underTest = "tts"

\* repeatLast reads and writes nothing that the handlers of another client touch, so
\* one client asks for the replay
RelayClients == {"c1"}

NextRelay ==
  \/ \E c \in RelayClients : HandleConnection(c)
  \/ \E c \in RelayClients : ConnectionResume(c)
  \/ \E r \in ResponseIds, a \in Audios : TtsRelayCacheSet(r, a)
  \/ \E c \in RelayClients, r \in ResponseIds : RepeatLast(c, r)
  \/ \E id \in DOMAIN handlers : RepeatLastResume(id)
  \/ \E d \in TickSteps("tts") : Tick(d)
  \/ RedisReady

SpecRelay == InitRelay /\ [][NextRelay]_vars

(***************************************************************************)
(* The handlers that forward a request without consulting a cache, and     *)
(* handleAudioChunk, against a link that connects and drops and a Redis    *)
(* connection that comes and goes (SpecForward).  The upstream keeps what  *)
(* it has received; its replies are not part of this specification.        *)
(***************************************************************************)
\* the socket.io client's `disconnect` event
PythonDisconnect ==
  /\ pyConnected
  /\ pyConnected' = FALSE
  /\ GatewayStep(Step)
  /\ UNCHANGED << sockets, activeFrontendClient, pyPending, handlers, redisQueue, delivered,
                  issued, phase, storeVars >>

\* how a handler ended: op is the client event, key the client, arg the state of the
\* link when the handler reached its end, ret what became of the request
LinkState == IF pyConnected THEN "link up" ELSE "link down"
Handled(op, c, outcome) ==
  [NoEvent(op) EXCEPT !.key = c, !.arg = Some(LinkState), !.ret = Some(outcome),
                      !.status = IF outcome = "rejected" THEN "threw" ELSE "ok"]

\* a handler without an await: it makes the client the reply target, then either
\* checks isConnected() and notifies the client, or calls the send method unchecked
SyncHandler(c, op, event, payload, checksLink) ==
  /\ phase[c] = "open"
  /\ issued < MaxEvents
  /\ issued' = issued + 1
  /\ activeFrontendClient' = Some(c)
  /\ IF checksLink /\ ~pyConnected
     THEN /\ delivered' = Emit(delivered, c, <<Msg("error", "error", "", c, "local")>>)
          /\ UNCHANGED pyPending
          /\ Record(Handled(op, c, "error"))
     ELSE /\ pyPending' = PythonEmit(pyPending, pyConnected,
                                     Forward(pyPending, RequestId(issued + 1), event, payload,
                                             c, issued + 1))
          /\ UNCHANGED delivered
          /\ Record(Handled(op, c, IF pyConnected THEN "sent" ELSE "dropped"))
  /\ UNCHANGED << sockets, pyConnected, handlers, redisQueue, phase, storeVars, clockVars,
                  calls, underTest >>

HandleTextOnlyInput(c, text) == SyncHandler(c, "text_only_input", "text_only_query", text, TRUE)
HandleVoiceInput(c, audio) == SyncHandler(c, "voice_input", "voice_input", audio, TRUE)
HandleInterimSpeech(c, text) == SyncHandler(c, "interim_speech", "interim_speech", text, FALSE)
HandleChangeVoice(c, voiceId) == SyncHandler(c, "change_voice", "change_voice", voiceId, FALSE)
HandleGetVoices(c) == SyncHandler(c, "get_voices", "get_voices", "", FALSE)

\* handleAudioChunk up to the GET inside `await this.audioDedupCache.isDuplicate(...)`
HandleAudioChunk(c, chunk) ==
  /\ phase[c] = "open"
  /\ issued < MaxEvents
  /\ issued' = issued + 1
  /\ handlers' = Suspend(handlers, RequestId(issued + 1),
                         [Frame("audio_chunk", c, "dedupGet", chunk,
                                RedisGet(redis, RedisUp, DedupKey(c, chunk), now))
                            EXCEPT !.seq = issued + 1])
  /\ redisQueue' = Append(redisQueue, RequestId(issued + 1))
  /\ redisStatus' = Touch(redisStatus)
  /\ GatewayStep(Step)
  /\ UNCHANGED << sockets, activeFrontendClient, pyConnected, pyPending, delivered, phase,
                  redis, memory, lastSetAt >>

\* isDuplicate after its GET: the rejection leaves the handler (Nest's filter emits
\* `exception`), a marker makes the handler return, otherwise the SET is issued
AudioChunkGot(id) ==
  /\ At(id, "audio_chunk", "dedupGet")
  /\ RedisReplied(id)
  /\ LET f == handlers[id]
     IN IF ~f.reply.ok
        THEN /\ delivered' = Emit(delivered, f.client,
                                   <<Msg("exception", "error", "", f.client, "local")>>)
             /\ handlers' = Finish(handlers, id)
             /\ redisQueue' = Tail(redisQueue)
             /\ Record(Handled("audio_chunk", f.client, "rejected"))
             /\ UNCHANGED << redis, redisStatus >>
        ELSE IF DedupExists(f.reply)
        THEN /\ handlers' = Finish(handlers, id)
             /\ redisQueue' = Tail(redisQueue)
             /\ Record(Handled("audio_chunk", f.client, "duplicate"))
             /\ UNCHANGED << delivered, redis, redisStatus >>
        ELSE /\ redis' = DedupMarkStore(redis, RedisUp, f.client, f.text, now)
             /\ redisStatus' = Touch(redisStatus)
             /\ handlers' = [handlers EXCEPT ![id].pc = "dedupSet",
                                             ![id].reply = [ok |-> RedisUp, val |-> None]]
             /\ redisQueue' = Append(Tail(redisQueue), id)
             /\ Record(Step)
             /\ UNCHANGED delivered
  /\ UNCHANGED << sockets, activeFrontendClient, pyConnected, pyPending, issued, phase,
                  memory, lastSetAt, clockVars, calls, underTest >>

\* isDuplicate returned false: the client becomes the reply target and the chunk is
\* given to PythonSocket.emit
AudioChunkMarked(id) ==
  /\ At(id, "audio_chunk", "dedupSet")
  /\ RedisReplied(id)
  /\ redisQueue' = Tail(redisQueue)
  /\ handlers' = Finish(handlers, id)
  /\ LET f == handlers[id]
     IN IF ~f.reply.ok
        THEN /\ delivered' = Emit(delivered, f.client,
                                   <<Msg("exception", "error", "", f.client, "local")>>)
             /\ Record(Handled("audio_chunk", f.client, "rejected"))
             /\ UNCHANGED << activeFrontendClient, pyPending >>
        ELSE /\ activeFrontendClient' = Some(f.client)
             /\ pyPending' = PythonEmit(pyPending, pyConnected,
                                        Forward(pyPending, id, "audio_chunk", f.text,
                                                f.client, f.seq))
             /\ Record(Handled("audio_chunk", f.client,
                               IF pyConnected THEN "sent" ELSE "dropped"))
             /\ UNCHANGED delivered
  /\ UNCHANGED << sockets, pyConnected, issued, phase, storeVars, clockVars, calls,
                  underTest >>

\* none of these handlers reads what another client's handler wrote, so one client
\* sends the requests
ForwardClients == {"c1"}

NextForward ==
  \/ \E c \in ForwardClients : HandleConnection(c)
  \/ \E c \in ForwardClients : ConnectionResume(c)
  \/ \E c \in ForwardClients : HandleDisconnect(c)
  \/ \E c \in ForwardClients : HandleTextOnlyInput(c, TextOf(c))
  \/ \E c \in ForwardClients : HandleVoiceInput(c, "webm")
  \/ \E c \in ForwardClients : HandleInterimSpeech(c, TextOf(c))
  \/ \E c \in ForwardClients : HandleChangeVoice(c, "Joey")
  \/ \E c \in ForwardClients : HandleGetVoices(c)
  \/ \E c \in ForwardClients : HandleAudioChunk(c, "pcm1")
  \/ \E id \in DOMAIN handlers : AudioChunkGot(id)
  \/ \E id \in DOMAIN handlers : AudioChunkMarked(id)
  \/ PythonConnect
  \/ PythonDisconnect
  \/ RedisReady
  \/ RedisDown

SpecForward == InitGateway /\ [][NextForward]_vars

(***************************************************************************)
(* One client's text_input exchanges, with the cached replies and their    *)
(* synthesis (SpecPolly).                                                  *)
(***************************************************************************)
\* emitPollyAudio emits to the client of the handler that called it
PollyClients == {"c1"}

NextPolly ==
  \/ \E c \in PollyClients : HandleConnection(c)
  \/ \E c \in PollyClients : ConnectionResume(c)
  \/ \E c \in PollyClients : HandleTextInput(c, TextOf(c))
  \/ \E id \in DOMAIN handlers : TextInputSessionGot(id)
  \/ \E id \in DOMAIN handlers : TextInputSessionSet(id)
  \/ \E id \in DOMAIN handlers : TextInputExactGot(id)
  \/ \E id \in DOMAIN handlers, ok \in BOOLEAN : TextInputPollyDone(id, ok)
  \/ \E req \in pyPending : PythonReplies(req)
  \/ \E id \in DOMAIN handlers : PythonMessageSessionGot(id)
  \/ PythonConnect
  \/ RedisReady

SpecPolly == InitGateway /\ [][NextPolly]_vars

(***************************************************************************)
(* Three clients that connect and close, and nothing else (SpecClose).     *)
(* handleConnection makes the connecting client the active one, so here    *)
(* the sockets are in the order of their last activity.                    *)
(***************************************************************************)
NextClose ==
  \/ \E c \in AllClients : HandleConnection(c)
  \/ \E c \in AllClients : ConnectionResume(c)
  \/ \E c \in AllClients : HandleDisconnect(c)
  \/ PythonConnect
  \/ RedisReady

SpecClose == InitGateway /\ [][NextClose]_vars

(***************************************************************************)
(* An answer the upstream sends as several messages: the text, then the    *)
(* audio stream (SpecExchange).  Each message is dispatched to its own     *)
(* handlePythonMessage.                                                    *)
(***************************************************************************)
Exchange == <<"text_response", "audio_start", "audio_chunk", "audio_end">>

\* a TEXT_RESPONSE branch that looks the session up before it emits
TextResponseEmitsAfterAwait(at, msgs) == IF at = "resume" THEN msgs ELSE << >>
\* the TEXT_RESPONSE branch emits text_response and stream_complete, and then
\* awaits sessionCache.get: all of it is emitted at dispatch, nothing on resume
TextResponseEmits(at, msgs) == IF at = "dispatch" THEN msgs ELSE << >>

ExchangeMsg(ev, req, n) ==
  [UpstreamMsg(ev, req) EXCEPT !.index = n, !.exchange = req.id]

\* the next message of the answer to req arrives: dispatch, and handlePythonMessage
\* up to its first await (only the TEXT_RESPONSE branch has one).  The upstream
\* streams one answer at a time: it begins an answer when no other is under way.
PythonDispatch(req) ==
  /\ pyConnected
  /\ req \in pyPending
  /\ \A r \in pyPending : r = req \/ r.replied = 0
  /\ LET n == req.replied + 1
         ev == Exchange[n]
         client == GetActiveClient
         text == << ExchangeMsg("text_response", req, n), ExchangeMsg("stream_complete", req, n) >>
     IN /\ pyPending' = (pyPending \ {req}) \cup
                           (IF n = Len(Exchange) THEN {} ELSE {[req EXCEPT !.replied = n]})
        /\ IF client = None
           THEN UNCHANGED << delivered, handlers, redisQueue, redisStatus >>
           ELSE IF ev = "text_response"
           THEN /\ delivered' = Emit(delivered, client[1], TextResponseEmits("dispatch", text))
                /\ redisQueue' = Append(redisQueue, "m" \o req.id)
                /\ handlers' = Suspend(handlers, "m" \o req.id,
                                       [Frame("python_message", client[1], "sessionGet",
                                              ResponseText(req),
                                              RedisGet(redis, RedisUp, SessionKey(client[1]), now))
                                          EXCEPT !.late = TextResponseEmits("resume", text)])
                /\ redisStatus' = Touch(redisStatus)
           ELSE /\ delivered' = Emit(delivered, client[1], << ExchangeMsg(ev, req, n) >>)
                /\ UNCHANGED << handlers, redisQueue, redisStatus >>
  /\ GatewayStep(Step)
  /\ UNCHANGED << sockets, activeFrontendClient, pyConnected, issued, phase, redis, memory,
                  lastSetAt >>

\* the messages of an answer all go to the one client that is active
ExchangeClients == {"c1"}

NextExchange ==
  \/ \E c \in ExchangeClients : HandleConnection(c)
  \/ \E c \in ExchangeClients : ConnectionResume(c)
  \/ \E c \in ExchangeClients : HandleTextOnlyInput(c, TextOf(c))
  \/ \E req \in pyPending : PythonDispatch(req)
  \/ \E id \in DOMAIN handlers : PythonMessageSessionGot(id)
  \/ PythonConnect
  \/ RedisReady

SpecExchange == InitGateway /\ [][NextExchange]_vars

(***************************************************************************)
(* One client that sends payloads with and without their field             *)
(* (SpecInvalid).                                                          *)
(***************************************************************************)
\* handleAudioChunk on a payload without chunkBase64: Buffer.from(undefined, 'base64')
\* throws before anything else has run, and Nest's filter emits `exception`
HandleAudioChunkUndefined(c) ==
  /\ phase[c] = "open"
  /\ issued < MaxEvents
  /\ issued' = issued + 1
  /\ delivered' = Emit(delivered, c, <<Msg("exception", "error", "", c, "local")>>)
  /\ GatewayStep([Handled("audio_chunk", c, "rejected") EXCEPT !.key = Undefined])
  /\ UNCHANGED << sockets, activeFrontendClient, pyConnected, pyPending, handlers, redisQueue,
                  phase, storeVars >>

InvalidClients == {"c1"}

NextInvalid ==
  \/ \E c \in InvalidClients : HandleConnection(c)
  \/ \E c \in InvalidClients : ConnectionResume(c)
  \/ \E c \in InvalidClients : \E text \in {TextOf(c), Undefined} : HandleTextInput(c, text)
  \/ \E id \in DOMAIN handlers : TextInputSessionGot(id)
  \/ \E id \in DOMAIN handlers : TextInputSessionSet(id)
  \/ \E id \in DOMAIN handlers : TextInputExactGot(id)
  \/ \E c \in InvalidClients : HandleAudioChunkUndefined(c)
  \/ PythonConnect
  \/ RedisReady

SpecInvalid == InitGateway /\ [][NextInvalid]_vars

(***************************************************************************)
(* One client that is sent synthesized audio and asks for it again         *)
(* (SpecRepeat): the handlers of SpecPolly and repeat_last.  The gateway   *)
(* has no call of TtsRelayCache.set, so no action here writes that cache.  *)
(***************************************************************************)
RepeatClients == {"c1"}

NextRepeat ==
  \/ \E c \in RepeatClients : HandleConnection(c)
  \/ \E c \in RepeatClients : ConnectionResume(c)
  \/ \E c \in RepeatClients : HandleTextInput(c, TextOf(c))
  \/ \E id \in DOMAIN handlers : TextInputSessionGot(id)
  \/ \E id \in DOMAIN handlers : TextInputSessionSet(id)
  \/ \E id \in DOMAIN handlers : TextInputExactGot(id)
  \/ \E id \in DOMAIN handlers, ok \in BOOLEAN : TextInputPollyDone(id, ok)
  \/ \E req \in pyPending : PythonReplies(req)
  \/ \E id \in DOMAIN handlers : PythonMessageSessionGot(id)
  \/ \E c \in RepeatClients, r \in ResponseIds : RepeatLast(c, r)
  \/ \E id \in DOMAIN handlers : RepeatLastResume(id)
  \/ PythonConnect
  \/ RedisReady

SpecRepeat == InitGateway /\ [][NextRepeat]_vars

(***************************************************************************)
(* Claims about the cache classes (SpecCache).                             *)
(***************************************************************************)
GetOps == {"session.get", "exact.get", "stt.get", "tts.get"}
PlainOps == {"exact.get", "exact.set", "stt.get", "stt.set", "tts.get", "tts.set",
             "dedup.isDuplicate"}

\* C4: a call of isDuplicate made less than 2 s after the marker of the same scope
\* and bytes was written (by the call that returned false) returns true; a call made
\* 2 s or more after the marker was written returns false.
C4_DedupWindow ==
  (last.op = "dedup.isDuplicate" /\ last.status = "ok") =>
     /\ (last.since >= 0 /\ last.since < DedupTtl) => last.ret = Some(TRUE)
     /\ last.since >= DedupTtl => last.ret = Some(FALSE)

\* a repeated submission one second after the marker was written was suppressed
C4_Witness ==
  /\ last.op = "dedup.isDuplicate"
  /\ last.status = "ok"
  /\ last.since = 1
  /\ last.ret = Some(TRUE)

\* C5: in every cache class a get that directly follows a completed set of the same
\* key returns the value that was set (for the dedup class: a call that directly
\* follows a completed call with the same scope and bytes finds the marker).
C5_RoundTrip ==
  /\ (last.op \in GetOps /\ last.justSet # None) =>
        (last.status = "ok" /\ last.ret = last.justSet)
  /\ (last.op = "dedup.isDuplicate" /\ last.justSet # None) =>
        (last.status = "ok" /\ last.ret = Some(TRUE))

\* an exact-response entry was read back right after it was written
C5_Witness ==
  /\ last.op = "exact.get"
  /\ last.justSet = Some(Answer("hi"))
  /\ last.ret = Some(Answer("hi"))

\* C6: a get that completes once the class's TTL has elapsed since the last set of
\* the key returns absent, in every class, the session cache included.
C6_ExpiredIsAbsent ==
  (last.op \in GetOps /\ last.status = "ok" /\ last.since >= Ttl(underTest)) =>
     last.ret = None

\* C10: no call of a class without an in-process fallback throws to its caller.
C10_NeverThrows ==
  last.op \in PlainOps => last.status = "ok"

(***************************************************************************)
(* Claims about the gateway (Spec).                                        *)
(***************************************************************************)
Received(c) == { delivered[c][i] : i \in 1..Len(delivered[c]) }

\* C1: an upstream reply produced for a request of session s is delivered only to s
\* or to no one, never to a different session.
C1_ReplyOnlyToOwner ==
  \A c \in Clients : \A m \in Received(c) : m.src = "upstream" => m.owner = c

\* C2 (Scenario B): when the text queries of two clients wait for their replies at
\* the same time, each client receives only the text_response produced for its own text.
C2_OwnResponseOnly ==
  \A c \in Clients : \A m \in Received(c) :
    (m.ev = "text_response" /\ m.type = "response" /\ m.overlap) => m.owner = c

\* C3: an upstream reply for a request of a session that has been closed is delivered
\* to no client.
C3_OrphanReplyDiscarded ==
  \A c \in Clients : \A m \in Received(c) : m.src = "upstream" => ~m.ownerClosed

\* C7: handling the disconnect of a session that is already closed leaves the reply
\* target, the open sessions and the caches as the first close left them.
C7_CloseIdempotent ==
  [][\A c \in AllClients :
       (phase[c] = "closed" /\ HandleDisconnect(c))
         => UNCHANGED << activeFrontendClient, sockets, phase, redis, memory >>]_vars
\* a closed session's disconnect is handled again while another session is the target
C7_Witness ==
  /\ last.op = "disconnect"
  /\ last.arg = Some("closed")
  /\ activeFrontendClient # None

\* C8 (Scenario A): a client that was given the local greeting because the upstream
\* was not connected is never delivered a second greeting text_response.
C8_NoSecondGreeting ==
  \A c \in Clients :
    (\E m \in Received(c) : m.type = "initial_greeting" /\ m.src = "local")
      => Cardinality({ i \in 1..Len(delivered[c]) :
                         /\ delivered[c][i].ev = "text_response"
                         /\ delivered[c][i].type = "initial_greeting" }) <= 1

(***************************************************************************)
(* Claims about repeat_last (SpecRelay).                                   *)
(***************************************************************************)
\* C9 (Scenario C): a repeat_last handled when 300 s or more have passed since the
\* audio was stored under its responseId emits no audio.
C9_NoStaleAudio ==
  /\ \A c \in Clients : \A m \in Received(c) : m.ev = "audio" => m.age < TtsRelayTtl
  /\ (last.op = "repeat_last" /\ last.since >= TtsRelayTtl) => last.ret = None
\* a repeat_last for audio stored 300 s earlier completed normally and emitted nothing
C9_Witness ==
  /\ last.op = "repeat_last"
  /\ last.status = "ok"
  /\ last.since >= TtsRelayTtl
  /\ last.ret = None

(***************************************************************************)
(* Claims about the forwarding handlers (SpecForward).                     *)
(***************************************************************************)
ForwardOps == {"text_only_input", "voice_input", "audio_chunk", "interim_speech",
               "change_voice", "get_voices"}

\* C11: an audio_chunk that is not a duplicate and is handled while the link is
\* connected is forwarded to the upstream, whether or not the cache store can be reached.
C11_StoreLossInvisible ==
  (last.op = "audio_chunk" /\ last.arg = Some("link up") /\ last.ret # Some("duplicate"))
    => last.ret = Some("sent")

\* C12: a request that must be forwarded and is handled while the link is not
\* connected ends with an error notification to the requesting client.
C12_UnavailableNotified ==
  (last.op \in ForwardOps /\ last.arg = Some("link down") /\ last.status = "ok"
     /\ last.ret # Some("duplicate"))
    => last.ret = Some("error")

(***************************************************************************)
(* Claims about the synthesis of cached replies (SpecPolly).               *)
(***************************************************************************)
CachedReplyReceived(c, text) ==
  \E i, j \in 1..Len(delivered[c]) :
    /\ i < j
    /\ delivered[c][i].ev = "text_response" /\ delivered[c][i].type = "cached"
    /\ delivered[c][i].text = text
    /\ delivered[c][j].ev = "stream_complete" /\ delivered[c][j].text = text

\* C13: when the synthesis of a cached reply fails, the handler ends without emitting
\* anything more (no tts_audio, no exception), and the client has the text_response
\* and the stream_complete of that reply.
C13_SynthesisFailureAbsorbed ==
  [][\A id \in DOMAIN handlers :
       TextInputPollyDone(id, FALSE)
         => /\ delivered' = delivered
            /\ id \notin DOMAIN handlers'
            /\ CachedReplyReceived(handlers[id].client, handlers[id].text)]_vars
\* a cached reply was delivered, its handler has ended, and no audio came with it
C13_Witness ==
  \E c \in PollyClients :
    /\ \E m \in Received(c) : m.ev = "text_response" /\ m.type = "cached"
    /\ \A m \in Received(c) : m.ev # "tts_audio"
    /\ \A id \in DOMAIN handlers : handlers[id].pc # "polly"

\* the handlers that call a send method without asking isConnected() first
UncheckedSend(c) ==
  \/ HandleInterimSpeech(c, TextOf(c))
  \/ HandleChangeVoice(c, "Joey")
  \/ HandleGetVoices(c)

\* C14: a send while the link is not connected is a no-op: the upstream receives
\* nothing, then or after the link is up again; the call returns normally; the link,
\* the session records and the sockets are left as they were.
C14_SendWhileDownIsNoop ==
  [][/\ ~pyConnected => pyPending' = pyPending
     /\ \A r \in pyPending' : r.up
     /\ \A c \in ForwardClients :
          (~pyConnected /\ UncheckedSend(c))
            => /\ last'.status = "ok"
               /\ UNCHANGED << pyConnected, pyPending, sockets, phase, redis, memory,
                               handlers, delivered >>]_vars
\* a request was sent while the link was down, the link came up afterwards, and the
\* upstream has received nothing
C14_Witness ==
  /\ last.op \in {"interim_speech", "change_voice", "get_voices"}
  /\ last.ret = Some("dropped")
  /\ pyConnected
  /\ pyPending = {}

(***************************************************************************)
(* Claims about closing sessions (SpecClose).                              *)
(***************************************************************************)
\* the open session that was active last, when sessions only connect and close
MostRecentlyActive(socks) == IF socks = << >> THEN None ELSE Some(socks[Len(socks)])

\* C15: when the active client closes, the new active client is the remaining open
\* session that was active most recently, and none when no session remains.
C15_NextTargetMostRecent ==
  [][\A c \in AllClients :
       (activeFrontendClient = Some(c) /\ HandleDisconnect(c))
         => activeFrontendClient' = MostRecentlyActive(sockets')]_vars

\* whether the session store holds a record for the session: in Redis or in the
\* in-process map that SessionCache.get falls back to
SessionRecorded(c) == c \in DOMAIN memory \/ Live(redis, SessionKey(c), now)

\* C16: once a client's disconnect has been handled, the session store holds no
\* record for its session, and no handler still in flight puts one back.
C16_ClosedSessionForgotten ==
  \A c \in AllClients : phase[c] = "closed" => ~SessionRecorded(c)

\* C17: a request whose handler was suspended at a cache await when its client
\* disconnected is not forwarded to the upstream when the handler resumes.
C17_ClosedWhileSuspendedNotForwarded ==
  \A r \in pyPending : r.event \in {"text_query", "audio_chunk"} => ~r.ownerClosed

\* C18: the requests of one client reach the upstream in the order the client sent
\* them: no request is forwarded after a later request of the same client.
C18_ForwardedInOrder ==
  \A r \in pyPending : r.overtakenBy = {}

(***************************************************************************)
(* Claims about the answers of the upstream (SpecExchange).                *)
(***************************************************************************)
\* C19: the messages of one answer that a client receives reach it in the order the
\* upstream emitted them, whether or not the handler of an earlier message is still
\* suspended on the cache.
C19_ExchangeInOrder ==
  \A c \in Clients :
    \A i, j \in 1..Len(delivered[c]) :
      (/\ i < j
       /\ delivered[c][i].exchange # ""
       /\ delivered[c][i].exchange = delivered[c][j].exchange)
        => delivered[c][i].index <= delivered[c][j].index
\* a client has received the text and a later message of its own answer while the
\* handler of the text message is still suspended at its cache read
C19_Witness ==
  \E c \in Clients :
    \E i, j \in 1..Len(delivered[c]) :
      /\ delivered[c][i].owner = c /\ delivered[c][j].owner = c
      /\ delivered[c][i].ev = "text_response"
      /\ delivered[c][j].ev = "audio_start"
      /\ delivered[c][i].exchange = delivered[c][j].exchange
      /\ At("m" \o delivered[c][i].exchange, "python_message", "sessionGet")

(***************************************************************************)
(* Claims about invalid payloads (SpecInvalid).                            *)
(***************************************************************************)
\* C20: a text_input without text, or an audio_chunk without chunkBase64, is rejected
\* on its own: its handler changes neither the reply target nor the session record,
\* and the upstream never receives a request made from it.
C20_InvalidPayloadRejected ==
  [][/\ \A c \in InvalidClients :
          (HandleTextInput(c, Undefined) \/ HandleAudioChunkUndefined(c))
            => UNCHANGED << activeFrontendClient, memory, redis, pyPending >>
     /\ \A id \in DOMAIN handlers :
          (handlers[id].text = Undefined /\ TextInputSessionGot(id))
            => (memory' = memory /\ redis' = redis)
     /\ \A r \in pyPending' : r.text # Undefined]_vars

(***************************************************************************)
(* Claims about the exact-response cache in the gateway (SpecPolly).       *)
(***************************************************************************)
\* the reply of the handler's GET carried an unexpired entry for its text
ExactEntryRead(f) == f.reply.val # None

\* C21: when the text of a text_input has an unexpired exact-response entry, the
\* client is sent text_response and then stream_complete with the cached text and
\* nothing is forwarded, whatever the state of the link; when it has none and the link
\* is connected, exactly one text_query with that text is forwarded.
C21_CacheShortCircuit ==
  [][\A id \in DOMAIN handlers :
       TextInputExactGot(id)
         => LET f == handlers[id]
                before == Len(delivered[f.client])
            IN IF ExactEntryRead(f)
               THEN /\ pyPending' = pyPending
                    /\ Len(delivered'[f.client]) = before + 2
                    /\ delivered'[f.client][before + 1].ev = "text_response"
                    /\ delivered'[f.client][before + 2].ev = "stream_complete"
                    /\ delivered'[f.client][before + 1].text = JsonParse(f.reply.val[1])
                    /\ delivered'[f.client][before + 2].text = JsonParse(f.reply.val[1])
               ELSE pyConnected
                      => \E r \in pyPending' :
                           /\ r \notin pyPending
                           /\ r.event = "text_query" /\ r.text = f.text
                           /\ pyPending' = pyPending \cup {r}]_vars

\* C22: an exact-response entry under (en, t) holds the answer the upstream gave to
\* a text_input with text t, and a cached reply served to a client is the answer to
\* the text it asked.
C22_EntryAnswersItsKey ==
  /\ \A c \in Clients :
       ExactKey("en", TextOf(c)) \in DOMAIN redis
         => JsonParse(redis[ExactKey("en", TextOf(c))].val) = Answer(TextOf(c))
  /\ \A c \in Clients : \A m \in Received(c) :
       m.type = "cached" => m.text = Answer(TextOf(c))

(***************************************************************************)
(* Further claims about forwarded requests (SpecForward).                  *)
(***************************************************************************)
\* C23: the reply target is none or a client that is connected; no handler that
\* resumes from a cache await designates a client that has disconnected.
C23_TargetIsConnected ==
  activeFrontendClient = None \/ Connected(activeFrontendClient[1])

\* the copies of a client's chunk that the upstream has received
ForwardedCopies(c, chunk) ==
  { r \in pyPending : r.event = "audio_chunk" /\ r.owner = c /\ r.text = chunk }

\* C24: of the isDuplicate calls for the same client and the same bytes within the
\* marker's lifetime, at most one returns false, however their reads and writes of
\* the store interleave: the upstream receives at most one copy of the chunk.
C24_AtMostOneCopy ==
  \A c \in ForwardClients : Cardinality(ForwardedCopies(c, "pcm1")) <= 1

(***************************************************************************)
(* Further claims about the cache classes (SpecCache).                     *)
(***************************************************************************)
\* the payload of the most recent set(sessionId, .): set writes the in-process map
\* first, whatever becomes of the store, and nothing else writes or clears the map
MostRecentSet(sessionId) == memory[sessionId]

\* C25: within the TTL of the last set, SessionCache.get returns the payload of the
\* most recent set of that session, also when the store was unreachable for some of
\* the sets and is reachable again.
C25_GetReturnsLatestSet ==
  \A c \in Clients :
    (/\ last.op = "session.get"
     /\ last.key = SessionKey(c)
     /\ c \in DOMAIN memory
     /\ last.since < SessionTtl)
      => last.ret = Some(MostRecentSet(c))

(***************************************************************************)
(* Claims about re-fetching synthesized audio (SpecRepeat).                *)
(***************************************************************************)
\* C26: audio that was delivered to a client as tts_audio can be fetched again: when
\* the client then sends repeat_last within the relay TTL, the read of the audio-relay
\* cache finds audio, because the relay stored it before.
C26_DeliveredAudioRefetchable ==
  [][\A c \in RepeatClients, r \in ResponseIds :
       (RepeatLast(c, r) /\ \E m \in Received(c) : m.ev = "tts_audio")
         => handlers'[RequestId(calls + 1)].reply.val # None]_vars

====
